---- MODULE Spec2Model ----
(***************************************************************************)
(* A model of the limitless lifelog exporters.                             *)
(*                                                                         *)
(*   SpecMerge  the archive writer of the JSON exporter (src/export.js,    *)
(*              first program): appendToFile applied to one date file.     *)
(*   SpecSync   the markdown exporter with incremental (cursor) and full   *)
(*              (per-date) sync (src/unnamed/part_002), run repeatedly     *)
(*              against a remote that grows between runs.                  *)
(***************************************************************************)
EXTENDS Integers, Sequences, FiniteSets, TLC

(***************************************************************************)
(* Bounds of the model.                                                    *)
(***************************************************************************)
\* ids of lifelog records
MaxIds == 2
\* startTime values (instants) a record of the merge model may carry
MaxTime == 3
\* longest batch handed to appendToFile in the merge model
MaxBatchLen == 2
\* batches remembered since the start of the current run of the merge model
MaxBatches == 2

\* lifelog records the remote holds at most in the sync model
MaxRecords == 3
\* instants per calendar day: a startTime t falls on day t \div TicksPerDay
TicksPerDay == 2
\* calendar days the clock of the sync model runs through: 0 .. NDays - 1
NDays == 3
\* failed attempts one state file records at most
MaxFailures == 1
\* times the process is killed between a merge and its checkpoint
MaxKills == 1
\* part_002 11: the page size. The source asks for 10 records a page; the model
\* scales the page down so that a remote of MaxRecords records spans pages.
BATCH_SIZE == 2
\* part_002 12: the source stops a full sync after 10 empty days in a row; the
\* model scales the threshold down to the days its clock runs through.
FULL_SYNC_EMPTY_DAYS_THRESHOLD == 2
\* part_002 378: the fallback window of an incremental run without files
FallbackDays == 30
\* part_002 8
MAX_RETRIES == 3
\* part_002 320: the base of the backoff, in ms
BackoffBase == 1000
\* part_002 312: the wait after an HTTP 429, in ms
RateLimitCooldown == 60000
\* HTTP 429 answers one fetchLifelogs call receives at most
Max429 == 2
\* failed attempts a state file of the store model holds at most
MaxStoreFailures == 2
\* JavaScript's null, for a date, an instant or a cursor
NULL == -999

\* A file of the archive: absent, not parsable as JSON, or a JSON list of records.
ABSENT == [kind |-> "absent", data |-> <<>>]
CORRUPT == [kind |-> "corrupt", data |-> <<>>]
Json(s) == [kind |-> "json", data |-> s]
\* A file that holds the JSON text null.
JSONNULL == [kind |-> "null", data |-> <<>>]
\* A markdown file rendered from the records s.
Md(s) == [kind |-> "md", data |-> s]

VARIABLES
  \* ---- merge model (export.js, first program) ----
  file,        \* the date file: ABSENT, CORRUPT or Json(records)
  base,        \* history: the file as it was when the current run started
  batches,     \* history: the batches appendToFile has written since then, oldest first
  outcome,     \* history: how the last appendToFile ended: "none", "written", "error"
  exitCode,    \* the JSON exporter: "running", or the exit code "0" or "1" of the run
  unwritten,   \* history: an appendToFile of this run could not write its file
  \* ---- sync model (part_002): the world ----
  day,         \* the calendar day of the wall clock
  remote,      \* the records the remote holds
  mdFiles,     \* data/<date>.md for every date: ABSENT or Md(records)
  stateFile,   \* data/.sync-state.json: ABSENT or Json(state)
  \* ---- sync model: the running process ----
  pc,          \* "idle", "fetch", "page", "save", "sleep", "done"
  exit,        \* how the run ended: "none", "running", "complete", "failed", "killed"
  fullSync,    \* --full-sync
  syncState,   \* the state in memory
  today,       \* part_002 349
  endDate,     \* part_002 351: the lower bound, or NULL
  cursor,      \* part_002 490
  currentDate, \* part_002 410
  consecutiveEmptyDays,
  response,    \* the page in hand: [lifelogs, nextCursor]
  \* ---- sync model: history ----
  fetched,     \* the records of every page fetched in this run
  lateIds,     \* records that appeared remotely on a date whose file was already written
  prior,       \* the run before, if it failed or was killed: its exit, mode, lower
               \* bound, whether it checkpointed a page, and how many records the remote held
  shortCircuited, \* this run ended at the already-up-to-date check
  checkpointed,   \* this run has saved a checkpoint for a page
  pageWritten,    \* the files of the page in hand are written
  pageSaved,      \* the checkpoint of the page in hand is saved
  everWritten,    \* every record handed to createMarkdownFile so far
  kills,          \* times the process was killed
  asked,          \* the requests the sync loop of this run has issued, oldest first:
                  \* the date (full sync) or the cursor (cursor walk) of each
  slept,          \* a RATE_LIMIT_DELAY sleep has elapsed since the last request
  \* ---- fetchLifelogs (part_002 275-327): one call and its recursion ----
  fpc,         \* "idle", "request", "backoff", "cooldown", "returned", "thrown"
  retryCount,  \* the retryCount argument of the innermost call
  outcomes,    \* history: how each axios.get of the call ended, oldest first
  waits,       \* history: the sleeps of the call in ms, oldest first
  thrown,      \* the error the call fails with, or "none"
  \* ---- the sync state store (part_002 80-110) as one process uses it ----
  store,       \* data/.sync-state.json: ABSENT, CORRUPT, JSONNULL or Json(object)
  mem,         \* the object loadSyncState returned, as the run has changed it
  spc,         \* "idle", "loaded", "running", "raised", "failed"
  lastSaved,   \* history: [valid, state]: the object last given to saveSyncState
  \* ---- the data directory ----
  others,      \* the entries of data/ besides the date files and the state file
  \* ---- createMarkdownFile (part_002 232-273): one call ----
  logsArg,     \* the lifelogs argument
  mdText,      \* the text of the file at filePath
  rpc,         \* "call", "written", "thrown"
  \* ---- getLifelogs (part_001 12-98): one call ----
  total,       \* how many records the remote holds: 1..total, in request order
  limit,       \* the limit argument, or NULL
  batchSize,   \* part_001 30-32
  allLifelogs, \* part_001 25
  getCursor,   \* part_001 26: cursor, NULL while undefined
  retries,     \* part_001 49
  gpc,         \* "request", "returned", "thrown"
  result,      \* what the call returned
  lastPage,    \* history: the page of the last request that succeeded
  pages,       \* history: how many requests have succeeded
  \* ---- the exporter that peeks the latest record (export.js 158-463) ----
  safeDateStr, \* export.js 335: the safe sync point, or NULL
  peekDone,    \* history: the offsets of the pages that runs have merged and checkpointed
  \* ---- the request loop of the JSON exporter (export.js 83-154) ----
  jsonRemote,     \* how many records the remote holds
  jsonCursor,     \* export.js 92: cursor, NULL while undefined
  jsonRetries,    \* export.js 106: retries
  jpc,            \* "request", "done"
  jsonExit,       \* "running", "0", "1"
  timesRequested, \* history: how often the page at each offset was requested
  onDisk          \* history: the offsets of the pages whose files were written

mergeVars == <<file, base, batches, outcome, exitCode, unwritten>>
worldVars == <<day, remote, mdFiles, stateFile>>
runVars == <<pc, exit, fullSync, syncState, today, endDate, cursor, currentDate,
             consecutiveEmptyDays, response>>
histVars == <<fetched, lateIds, prior, shortCircuited, checkpointed, pageWritten,
              pageSaved, everWritten, kills>>
reqVars == <<asked, slept>>
syncVars == <<worldVars, runVars, histVars, reqVars>>
fetchVars == <<fpc, retryCount, outcomes, waits, thrown>>
storeVars == <<store, mem, spc, lastSaved>>
\* the variables of the models added after the three above
dirVars == <<others>>
renderVars == <<logsArg, mdText, rpc>>
getVars == <<total, limit, batchSize, allLifelogs, getCursor, retries, gpc, result,
             lastPage, pages>>
peekVars == <<safeDateStr, peekDone>>
loopVars == <<jsonRemote, jsonCursor, jsonRetries, jpc, jsonExit, timesRequested, onDisk>>
pureVars == <<storeVars, dirVars, renderVars, getVars, peekVars, loopVars>>
\* what the actions of the store leave alone
notStoreVars == <<mergeVars, syncVars, fetchVars, dirVars, renderVars, getVars, peekVars,
                  loopVars>>
vars == <<mergeVars, syncVars, fetchVars, pureVars>>

(***************************************************************************)
(* Records and batches of the merge model.                                 *)
(***************************************************************************)
Ids == 1..MaxIds
Times == 1..MaxTime
Records == [id : Ids, startTime : Times]
Batches == UNION {[1..n -> Records] : n \in 1..MaxBatchLen}

(***************************************************************************)
(* appendToFile (export.js 29-57).                                         *)
(***************************************************************************)
\* export.js 32-38: a missing or unparsable file reads as the empty list
existingData(f) == IF f.kind = "json" THEN f.data ELSE <<>>

\* Array.prototype.sort with (a, b) => a.startTime - b.startTime: a stable sort,
\* written as the insertion of each element behind its equals.
RECURSIVE InsertByStartTime(_, _)
InsertByStartTime(x, s) ==
  IF s = <<>> THEN <<x>>
  ELSE IF Head(s).startTime <= x.startTime
       THEN <<Head(s)>> \o InsertByStartTime(x, Tail(s))
       ELSE <<x>> \o s

RECURSIVE SortByStartTime(_)
SortByStartTime(s) ==
  IF s = <<>> THEN <<>>
  ELSE InsertByStartTime(s[Len(s)], SortByStartTime(SubSeq(s, 1, Len(s) - 1)))

\* the value new Map(entries) holds for key i: the one set last
LastWithId(s, i) ==
  s[CHOOSE k \in 1..Len(s) : s[k].id = i /\ \A j \in (k + 1)..Len(s) : s[j].id # i]

\* Array.from(new Map(s.map(item => [item.id, item])).values()): one entry per id,
\* at the place of the id's first occurrence, holding the id's last occurrence.
RECURSIVE MapValues(_, _)
MapValues(s, k) ==
  IF k > Len(s) THEN <<>>
  ELSE IF \E j \in 1..(k - 1) : s[j].id = s[k].id
       THEN MapValues(s, k + 1)
       ELSE <<LastWithId(s, s[k].id)>> \o MapValues(s, k + 1)

\* a deduplication keyed on startTime instead of id
RECURSIVE MapValuesByStartTime(_, _)
MapValuesByStartTime(s, k) ==
  IF k > Len(s) THEN <<>>
  ELSE IF \E j \in 1..(k - 1) : s[j].startTime = s[k].startTime
       THEN MapValuesByStartTime(s, k + 1)
       ELSE <<s[k]>> \o MapValuesByStartTime(s, k + 1)

UniqueByStartTime(s) == MapValuesByStartTime(s, 1)

\* export.js 47-49
UniqueById(s) == MapValues(s, 1)

\* export.js 41-49: what appendToFile writes for existing contents f and batch r
uniqueData(f, r) == UniqueById(SortByStartTime(existingData(f) \o r))

\* export.js 29-57. The write either succeeds or throws; a throw is caught and
\* logged (54-56) and leaves the file as it was.
appendToFile(r) ==
  /\ exitCode = "running"
  /\ Len(batches) < MaxBatches
  /\ \E writeOk \in BOOLEAN :
       /\ file' = IF writeOk THEN Json(uniqueData(file, r)) ELSE file
       /\ batches' = IF writeOk THEN Append(batches, r) ELSE batches
       /\ outcome' = IF writeOk THEN "written" ELSE "error"
       /\ unwritten' = (unwritten \/ ~writeOk)
  /\ UNCHANGED <<base, exitCode, syncVars, fetchVars, pureVars>>

\* export.js 123-131, 156: the last page is processed, exportLifelogs returns
\* and the process ends with exit code 0
ExportCompleted ==
  /\ exitCode = "running"
  /\ exitCode' = "0"
  /\ UNCHANGED <<file, base, batches, outcome, unwritten, syncVars, fetchVars, pureVars>>

\* export.js 12-15, 136-153: no API key, or a request failed MAX_RETRIES
\* times: process.exit(1)
ExportFailed ==
  /\ exitCode = "running"
  /\ exitCode' = "1"
  /\ UNCHANGED <<file, base, batches, outcome, unwritten, syncVars, fetchVars, pureVars>>

\* A new run of the exporter finds the file of the run before.
NewRun ==
  /\ exitCode # "running"
  /\ base' = file
  /\ batches' = <<>>
  /\ outcome' = "none"
  /\ exitCode' = "running"
  /\ unwritten' = FALSE
  /\ UNCHANGED <<file, syncVars, fetchVars, pureVars>>

\* The file is damaged between runs (a write cut short, an edit by hand).
DamageFile ==
  /\ batches = <<>>
  /\ file.kind = "json"
  /\ file' = CORRUPT
  /\ base' = CORRUPT
  /\ UNCHANGED <<batches, outcome, exitCode, unwritten, syncVars, fetchVars, pureVars>>

MergeStart ==
  /\ file = ABSENT
  /\ base = ABSENT
  /\ batches = <<>>
  /\ outcome = "none"
  /\ exitCode = "running"
  /\ unwritten = FALSE

(***************************************************************************)
(* The markdown exporter (part_002): time, the remote, the archive.        *)
(***************************************************************************)
Days == 0..(NDays - 1)
\* new Date(): the clock is read at the first instant of the day
Now == day * TicksPerDay
\* part_002 202: new Date(t).toISOString().split("T")[0]
DateOf(t) == t \div TicksPerDay

NoResponse == [lifelogs |-> <<>>, nextCursor |-> NULL]
Min(a, b) == IF a < b THEN a ELSE b

\* direction: "desc": newest first; equal instants by id
Newer(a, b) ==
  \/ a.startTime > b.startTime
  \/ a.startTime = b.startTime /\ a.id > b.id

RECURSIVE DescSeq(_)
DescSeq(S) ==
  IF S = {} THEN <<>>
  ELSE LET m == CHOOSE x \in S : \A y \in S \ {x} : Newer(x, y)
       IN <<m>> \o DescSeq(S \ {m})

\* The records a cursor request returns: a cursor is the offset of its page.
RemotePage(c) ==
  LET o == IF c = NULL THEN 0 ELSE c
      all == DescSeq(remote)
  IN SubSeq(all, o + 1, Min(o + BATCH_SIZE, Len(all)))

\* The nextCursor the remote may send with that page: the next offset while
\* records remain; at the end null, or once more a cursor for an empty page.
RemoteNextCursors(c) ==
  LET o == IF c = NULL THEN 0 ELSE c
      n == Cardinality(remote)
  IN IF o + BATCH_SIZE < n THEN {o + BATCH_SIZE}
     ELSE IF o <= n THEN {NULL, o + BATCH_SIZE}
     ELSE {NULL}

\* The records a request scoped to date d returns: the first page of that date.
RemoteDate(d) ==
  LET all == DescSeq({r \in remote : DateOf(r.startTime) = d})
  IN SubSeq(all, 1, Min(BATCH_SIZE, Len(all)))

RemoteDateNextCursor(d) ==
  IF Cardinality({r \in remote : DateOf(r.startTime) = d}) > BATCH_SIZE
  THEN BATCH_SIZE ELSE NULL

(***************************************************************************)
(* The sync state store (part_002 80-110).                                 *)
(***************************************************************************)
\* part_002 108
DefaultState == [lastSyncTime |-> NULL, failedAttempts |-> <<>>, emptyDays |-> <<>>]

\* new Set(list): the members in the order of their first occurrence
RECURSIVE NewSet(_, _)
NewSet(s, k) ==
  IF k > Len(s) THEN <<>>
  ELSE IF \E j \in 1..(k - 1) : s[j] = s[k] THEN NewSet(s, k + 1)
       ELSE <<s[k]>> \o NewSet(s, k + 1)

\* A JSON object is a function from the names of the properties it has.
Has(o, k) == k \in DOMAIN o

\* o.k = v: the property is changed, or added when the object has none
Assign(o, k, v) == [x \in DOMAIN o \cup {k} |-> IF x = k THEN v ELSE o[x]]

ArrayFromNothing(set) == <<>>

\* a Set is kept as the list of its members in insertion order
ArrayFrom(set) == set

\* part_002 80-90: { ...state, emptyDays: Array.from(state.emptyDays || []) }
saveSyncState(state) ==
  Json(Assign(state, "emptyDays",
              IF Has(state, "emptyDays") THEN ArrayFrom(state.emptyDays) ELSE <<>>))

\* part_002 92-110: what cannot be read or parsed, and null, give the default
loadSyncState(f) ==
  IF f.kind = "json"
  THEN Assign(f.data, "emptyDays",
              IF Has(f.data, "emptyDays") THEN NewSet(f.data.emptyDays, 1) ELSE <<>>)
  ELSE DefaultState

\* A file name: what stands before the date, the date (NULL when the name
\* holds none) and what follows it.
DatedName(d) == [prefix |-> "", date |-> d, ext |-> ".md"]
StateFileName == [prefix |-> ".sync-state", date |-> NULL, ext |-> ".json"]

\* names that are not those of date files: notes.md, backup-<date>.md,
\* <date>.json, <date>.md.bak, with dates before and after every date file
OtherNames ==
  {[prefix |-> "notes", date |-> NULL, ext |-> ".md"],
   [prefix |-> "backup-", date |-> NDays, ext |-> ".md"],
   [prefix |-> "backup-", date |-> 0 - 2 * FallbackDays, ext |-> ".md"],
   [prefix |-> "", date |-> NDays, ext |-> ".json"],
   [prefix |-> "", date |-> 0 - 2 * FallbackDays, ext |-> ".md.bak"]}

\* part_002 115: fs.readdir(dataDir)
readdir ==
  {DatedName(d) : d \in {x \in Days : mdFiles[x].kind = "md"}}
    \cup (IF stateFile.kind = "absent" THEN {} ELSE {StateFileName})
    \cup others

\* part_002 116: file.endsWith(".md")
EndsWithMd(n) == n.ext = ".md"

\* any name of a markdown file with a date in it
MatchAnyDate(n) == n.date # NULL

\* part_002 123: file.match(/^(\d{4}-\d{2}-\d{2})\.md$/)
MatchDate(n) == n.prefix = "" /\ n.date # NULL /\ n.ext = ".md"

\* part_002 116-125: the dates of the names that pass the filter and the match
DatedFiles == {n.date : n \in {m \in readdir : EndsWithMd(m) /\ MatchDate(m)}}

\* part_002 112-141
findLatestTranscriptionDate ==
  IF DatedFiles = {} THEN NULL
  ELSE CHOOSE d \in DatedFiles : \A e \in DatedFiles : e <= d

\* part_002 143-172
findEarliestTranscriptionDate ==
  IF DatedFiles = {} THEN NULL
  ELSE CHOOSE d \in DatedFiles : \A e \in DatedFiles : d <= e

(***************************************************************************)
(* The archive writer of the markdown exporter (part_002 191-273).         *)
(***************************************************************************)
DatesOf(lifelogs) == {DateOf(lifelogs[k].startTime) : k \in 1..Len(lifelogs)}

\* every record of the batch, whatever its date
LogsOfAnyDate(lifelogs, d) == lifelogs

\* part_002 199-211: lifelogsByDate[date]
LogsOfDate(lifelogs, d) ==
  LET OnDate(r) == DateOf(r.startTime) = d
  IN SelectSeq(lifelogs, OnDate)

\* part_002 232-273: the file written for the logs of one date of one batch;
\* old is the file that is there. Every record is taken to render to some text.
createMarkdownFile(old, logs) == Md(logs)

\* part_002 213-227: the archive after the batch
processLifelogs(lifelogs) ==
  [d \in Days |->
     IF d \in DatesOf(lifelogs)
     THEN createMarkdownFile(mdFiles[d], LogsOfDate(lifelogs, d))
     ELSE mdFiles[d]]

\* part_002 222-226: syncState.emptyDays.delete(date) for every date of the batch
DeleteEmptyDays(state, lifelogs) ==
  LET Kept(d) == d \notin DatesOf(lifelogs)
  IN [state EXCEPT !.emptyDays = SelectSeq(state.emptyDays, Kept)]

(***************************************************************************)
(* exportLifelogs (part_002 329-624).                                      *)
(***************************************************************************)
\* part_002 412: a date string compared with endDate; a string is never >= null
DateGe(d, e) == e # NULL /\ d >= e

\* part_002 353-383: the lower bound of a run
EndDateOf(fs) ==
  IF fs THEN findEarliestTranscriptionDate
  ELSE IF findLatestTranscriptionDate # NULL THEN findLatestTranscriptionDate
  ELSE DateOf(Now) - FallbackDays

\* the already-up-to-date check taken in full-sync mode as well
AlreadyUpToDateInAnyMode(fs, state) ==
  /\ state.lastSyncTime # NULL
  /\ DateOf(state.lastSyncTime) >= DateOf(Now)

\* part_002 385-397: the already-up-to-date check
AlreadyUpToDate(fs, state) ==
  /\ ~fs
  /\ state.lastSyncTime # NULL
  /\ DateOf(state.lastSyncTime) >= DateOf(Now)

\* a run that goes from the merge of a page straight to its sleep
AfterMergeNoCheckpoint == "sleep"

\* part_002 452-459, 550-570: after the merge of a page comes its checkpoint
AfterMerge == "save"

\* the run ends: exportLifelogs returns, or the process exits 1 or is killed
\* a run that never comes to its end
FinishNever(how) == UNCHANGED <<pc, exit>>

\* part_002 581-622: break, return, process.exit(1)
Finish(how) ==
  /\ pc' = "done"
  /\ exit' = how

NoPrior == [exit |-> "none", fullSync |-> FALSE, endDate |-> NULL,
            checkpointed |-> FALSE, known |-> 0]

RunStart ==
  /\ pc = "idle"
  /\ exit = "none"
  /\ fullSync = FALSE
  /\ syncState = DefaultState
  /\ today = 0
  /\ endDate = NULL
  /\ cursor = NULL
  /\ currentDate = 0
  /\ consecutiveEmptyDays = 0
  /\ response = NoResponse
  /\ fetched = {}
  /\ shortCircuited = FALSE
  /\ checkpointed = FALSE
  /\ pageWritten = FALSE
  /\ pageSaved = FALSE
  /\ asked = <<>>
  /\ slept = FALSE

\* part_002 329-403
StartRun(fs) ==
  /\ pc = "idle"
  /\ LET state == loadSyncState(stateFile)
     IN /\ fullSync' = fs
        /\ syncState' = state
        /\ today' = DateOf(Now)
        /\ endDate' = EndDateOf(fs)
        /\ shortCircuited' = AlreadyUpToDate(fs, state)
        /\ IF AlreadyUpToDate(fs, state)
           THEN Finish("complete")
           ELSE pc' = "fetch" /\ exit' = "running"
  /\ cursor' = NULL
  /\ currentDate' = DateOf(Now)
  /\ consecutiveEmptyDays' = 0
  /\ response' = NoResponse
  /\ UNCHANGED <<worldVars, fetched, lateIds, prior, checkpointed, pageWritten,
                 pageSaved, everWritten, kills, mergeVars, reqVars, fetchVars, pureVars>>

\* The process is gone; what the next run can tell of it is what it left on
\* disk. The history keeps how a run that did not complete ended.
ProcessExit ==
  /\ asked' = <<>>
  /\ slept' = FALSE
  /\ pc = "done"
  /\ prior' = IF exit \in {"failed", "killed"}
              THEN [exit |-> exit, fullSync |-> fullSync, endDate |-> endDate,
                    checkpointed |-> checkpointed, known |-> Cardinality(remote)]
              ELSE NoPrior
  /\ pc' = "idle"
  /\ exit' = "none"
  /\ fullSync' = FALSE
  /\ syncState' = DefaultState
  /\ today' = 0
  /\ endDate' = NULL
  /\ cursor' = NULL
  /\ currentDate' = 0
  /\ consecutiveEmptyDays' = 0
  /\ response' = NoResponse
  /\ fetched' = {}
  /\ shortCircuited' = FALSE
  /\ checkpointed' = FALSE
  /\ pageWritten' = FALSE
  /\ pageSaved' = FALSE
  /\ UNCHANGED <<worldVars, lateIds, everWritten, kills, mergeVars, fetchVars, pureVars>>

\* part_002 512-515: the request of the cursor walk is answered
FetchPage ==
  /\ asked' = Append(asked, cursor)
  /\ slept' = FALSE
  /\ pc = "fetch" /\ ~fullSync
  /\ \E nc \in RemoteNextCursors(cursor) :
       response' = [lifelogs |-> RemotePage(cursor), nextCursor |-> nc]
  /\ fetched' = fetched \cup {RemotePage(cursor)[k] : k \in 1..Len(RemotePage(cursor))}
  /\ pc' = "page"
  /\ pageWritten' = FALSE
  /\ pageSaved' = FALSE
  /\ UNCHANGED <<worldVars, exit, fullSync, syncState, today, endDate, cursor,
                 currentDate, consecutiveEmptyDays, lateIds, prior, shortCircuited,
                 checkpointed, everWritten, kills, mergeVars, fetchVars, pureVars>>

\* part_002 412-430: the request of the date walk is answered
FetchDate ==
  /\ asked' = Append(asked, currentDate)
  /\ slept' = FALSE
  /\ pc = "fetch" /\ fullSync
  /\ DateGe(currentDate, endDate)
  /\ response' = [lifelogs |-> RemoteDate(currentDate),
                  nextCursor |-> RemoteDateNextCursor(currentDate)]
  /\ fetched' = fetched \cup
                  {RemoteDate(currentDate)[k] : k \in 1..Len(RemoteDate(currentDate))}
  /\ pc' = "page"
  /\ pageWritten' = FALSE
  /\ pageSaved' = FALSE
  /\ UNCHANGED <<worldVars, exit, fullSync, syncState, today, endDate, cursor,
                 currentDate, consecutiveEmptyDays, lateIds, prior, shortCircuited,
                 checkpointed, everWritten, kills, mergeVars, fetchVars, pureVars>>

\* part_002 412: the date walk has passed the lower bound
FullSyncDone ==
  /\ pc = "fetch" /\ fullSync
  /\ ~DateGe(currentDate, endDate)
  /\ Finish("complete")
  /\ UNCHANGED <<worldVars, fullSync, syncState, today, endDate, cursor,
                 currentDate, consecutiveEmptyDays, response, histVars, mergeVars, reqVars, fetchVars, pureVars>>

\* part_002 476-482, 598-604: syncState.failedAttempts.push(...)
RecordNoFailure(state, attempt) == state

RecordOnlyLatest(state, attempt) ==
  [state EXCEPT !.failedAttempts = <<attempt>>]

RecordFailure(state, attempt) ==
  [state EXCEPT !.failedAttempts = Append(@, attempt)]

\* part_002 467-485, 589-607, 614-623: fetchLifelogs throws; the attempt is
\* recorded, the state saved and the process exits 1
FetchFails ==
  /\ asked' = Append(asked, IF fullSync THEN currentDate ELSE cursor)
  /\ slept' = FALSE
  /\ pc = "fetch"
  /\ fullSync => DateGe(currentDate, endDate)
  /\ Len(syncState.failedAttempts) < MaxFailures
  /\ LET attempt == [timestamp |-> Now,
                     at |-> IF fullSync THEN currentDate ELSE cursor]
         state == RecordFailure(syncState, attempt)
     IN /\ syncState' = state
        /\ stateFile' = saveSyncState(state)
  /\ Finish("failed")
  /\ UNCHANGED <<day, remote, mdFiles, fullSync, today, endDate, cursor,
                 currentDate, consecutiveEmptyDays, response, histVars, mergeVars, fetchVars, pureVars>>

\* part_002 432-445: a date without records
EmptyDate ==
  /\ pc = "page" /\ fullSync
  /\ response.lifelogs = <<>>
  /\ consecutiveEmptyDays' = consecutiveEmptyDays + 1
  /\ IF consecutiveEmptyDays + 1 >= FULL_SYNC_EMPTY_DAYS_THRESHOLD
     THEN Finish("complete")
     ELSE pc' = "save" /\ UNCHANGED exit
  /\ UNCHANGED <<worldVars, fullSync, syncState, today, endDate, cursor,
                 currentDate, response, histVars, mergeVars, reqVars, fetchVars, pureVars>>

\* part_002 446-454: the records of a date are written
ProcessDate ==
  /\ pc = "page" /\ fullSync
  /\ response.lifelogs # <<>>
  /\ consecutiveEmptyDays' = 0
  /\ mdFiles' = processLifelogs(response.lifelogs)
  /\ syncState' = DeleteEmptyDays(syncState, response.lifelogs)
  /\ everWritten' = everWritten \cup
                      {response.lifelogs[k] : k \in 1..Len(response.lifelogs)}
  /\ pageWritten' = TRUE
  /\ pc' = AfterMerge
  /\ UNCHANGED <<day, remote, stateFile, exit, fullSync, today, endDate, cursor,
                 currentDate, response, fetched, lateIds, prior, shortCircuited,
                 checkpointed, pageSaved, kills, mergeVars, reqVars, fetchVars, pureVars>>

\* part_002 517-531: an empty page
EmptyPage ==
  /\ pc = "page" /\ ~fullSync
  /\ response.lifelogs = <<>>
  /\ IF cursor # NULL
     THEN /\ cursor' = response.nextCursor
          /\ IF response.nextCursor = NULL
             THEN Finish("complete")
             ELSE pc' = "fetch" /\ UNCHANGED exit
     ELSE Finish("complete") /\ UNCHANGED cursor
  /\ UNCHANGED <<worldVars, fullSync, syncState, today, endDate, currentDate,
                 consecutiveEmptyDays, response, histVars, mergeVars, reqVars, fetchVars, pureVars>>

\* part_002 536-539
OldestLifelogDate == DateOf(response.lifelogs[Len(response.lifelogs)].startTime)

\* part_002 533-547: the page's oldest record is at or before the lower bound
ReachedEndDate ==
  /\ response.lifelogs # <<>>
  /\ endDate # NULL
  /\ OldestLifelogDate <= endDate

\* part_002 543-546: the walk stops and the page in hand is dropped
StopAtEndDate ==
  /\ pc = "page" /\ ~fullSync
  /\ ReachedEndDate
  /\ Finish("complete")
  /\ UNCHANGED <<worldVars, fullSync, syncState, today, endDate, cursor,
                 currentDate, consecutiveEmptyDays, response, histVars, mergeVars, reqVars, fetchVars, pureVars>>

\* part_002 549-565: the page is written and the cursor taken from it
ProcessPage ==
  /\ pc = "page" /\ ~fullSync
  /\ response.lifelogs # <<>>
  /\ ~ReachedEndDate
  /\ mdFiles' = processLifelogs(response.lifelogs)
  /\ syncState' = DeleteEmptyDays(syncState, response.lifelogs)
  /\ everWritten' = everWritten \cup
                      {response.lifelogs[k] : k \in 1..Len(response.lifelogs)}
  /\ cursor' = response.nextCursor
  /\ pageWritten' = TRUE
  /\ pc' = AfterMerge
  /\ UNCHANGED <<day, remote, stateFile, exit, fullSync, today, endDate,
                 currentDate, consecutiveEmptyDays, response, fetched, lateIds,
                 prior, shortCircuited, checkpointed, pageSaved, kills, mergeVars, reqVars, fetchVars, pureVars>>

\* part_002 456-459, 567-570: the checkpoint
SaveCheckpoint ==
  /\ pc = "save"
  /\ LET state == [syncState EXCEPT !.lastSyncTime = Now]
     IN /\ syncState' = state
        /\ stateFile' = saveSyncState(state)
  /\ pageSaved' = TRUE
  /\ checkpointed' = (checkpointed \/ pageWritten)
  /\ pc' = "sleep"
  /\ UNCHANGED <<day, remote, mdFiles, exit, fullSync, today, endDate, cursor,
                 currentDate, consecutiveEmptyDays, response, fetched, lateIds,
                 prior, shortCircuited, pageWritten, everWritten, kills, mergeVars, reqVars, fetchVars, pureVars>>

\* part_002 570, 589-607, 614-623 (full sync 459, 467-485): saveSyncState
\* throws at the checkpoint; the catch block records a failed attempt, tries
\* the save once more and rethrows, and the process exits 1
SaveCheckpointFails ==
  /\ pc = "save"
  /\ Len(syncState.failedAttempts) < MaxFailures
  /\ LET attempt == [timestamp |-> Now,
                     at |-> IF fullSync THEN currentDate ELSE cursor]
         state == RecordFailure([syncState EXCEPT !.lastSyncTime = Now], attempt)
     IN /\ syncState' = state
        /\ \E again \in BOOLEAN :
             stateFile' = IF again THEN saveSyncState(state) ELSE stateFile
  /\ Finish("failed")
  /\ UNCHANGED <<day, remote, mdFiles, fullSync, today, endDate, cursor,
                 currentDate, consecutiveEmptyDays, response, histVars, mergeVars,
                 reqVars, fetchVars, pureVars>>

\* part_002 461-466: the previous day, after the delay
SleepThenPreviousDay ==
  /\ slept' = TRUE
  /\ UNCHANGED asked
  /\ pc = "sleep" /\ fullSync
  /\ currentDate' = currentDate - 1
  /\ pc' = "fetch"
  /\ UNCHANGED <<worldVars, exit, fullSync, syncState, today, endDate, cursor,
                 consecutiveEmptyDays, response, histVars, mergeVars, fetchVars, pureVars>>

\* part_002 572-588: after the delay the walk goes on or is complete
SleepThenContinue ==
  /\ slept' = TRUE
  /\ UNCHANGED asked
  /\ pc = "sleep" /\ ~fullSync
  /\ IF cursor = NULL \/ Len(response.lifelogs) < BATCH_SIZE
     THEN Finish("complete")
     ELSE pc' = "fetch" /\ UNCHANGED exit
  /\ UNCHANGED <<worldVars, fullSync, syncState, today, endDate, cursor,
                 currentDate, consecutiveEmptyDays, response, histVars, mergeVars, fetchVars, pureVars>>

\* The process is killed after the merge of a page and before its checkpoint.
KillBeforeCheckpoint ==
  /\ pc = "save" /\ pageWritten
  /\ kills < MaxKills
  /\ kills' = kills + 1
  /\ Finish("killed")
  /\ UNCHANGED <<worldVars, fullSync, syncState, today, endDate, cursor,
                 currentDate, consecutiveEmptyDays, response, fetched, lateIds,
                 prior, shortCircuited, checkpointed, pageWritten, pageSaved,
                 everWritten, mergeVars, reqVars, fetchVars, pureVars>>

\* Between runs a day passes.
NextDay ==
  /\ pc = "idle"
  /\ day < NDays - 1
  /\ day' = day + 1
  /\ UNCHANGED <<remote, mdFiles, stateFile, runVars, histVars, mergeVars, reqVars, fetchVars, pureVars>>

\* Between runs a record appears remotely, with a startTime up to today's.
RemoteAdd(t) ==
  /\ pc = "idle"
  /\ Cardinality(remote) < MaxRecords
  /\ DateOf(t) <= day
  /\ LET r == [id |-> Cardinality(remote) + 1, startTime |-> t]
     IN /\ remote' = remote \cup {r}
        /\ lateIds' = IF mdFiles[DateOf(t)].kind = "md"
                      THEN lateIds \cup {r.id} ELSE lateIds
  /\ UNCHANGED <<day, mdFiles, stateFile, runVars, fetched, prior, shortCircuited,
                 checkpointed, pageWritten, pageSaved, everWritten, kills, mergeVars, reqVars, fetchVars, pureVars>>

SyncStart ==
  /\ day = 0
  /\ remote = {}
  /\ mdFiles = [d \in Days |-> ABSENT]
  /\ stateFile = ABSENT
  /\ RunStart
  /\ lateIds = {}
  /\ prior = NoPrior
  /\ everWritten = {}
  /\ kills = 0

(***************************************************************************)
(* fetchLifelogs (part_002 275-327): one call of the sync loop, with the   *)
(* calls it makes to itself.                                               *)
(***************************************************************************)
\* the failures axios reports that are no HTTP 429: no answer, a 5xx, a timeout
Transient == {"network", "5xx", "timeout"}

\* an error for which the retry test is taken whatever its kind
AnyError(e) == TRUE

\* part_002 308: axios.isAxiosError(error); the Error thrown for a response
\* of the wrong shape (part_002 305) is none
IsAxiosError(e) == e \in Transient \cup {"429"}

\* a backoff that does not grow
FlatBackoff(k) == BackoffBase

\* part_002 320: 1000 * Math.pow(2, retryCount)
Backoff(k) == BackoffBase * 2^k

\* a 429 that is counted as a retry
RetryCountAfter429Counted(k) == k + 1

\* part_002 313: fetchLifelogs(apiUrl, params, retryCount)
RetryCountAfter429(k) == k

\* part_002 275: the sync loop calls fetchLifelogs(apiUrl, params)
FetchCall ==
  /\ fpc = "idle"
  /\ fpc' = "request"
  /\ retryCount' = 0
  /\ UNCHANGED <<outcomes, waits, thrown, mergeVars, syncVars, pureVars>>

\* part_002 285-298: the response arrives and has the expected shape
FetchSucceeds ==
  /\ fpc = "request"
  /\ outcomes' = Append(outcomes, "ok")
  /\ fpc' = "returned"
  /\ UNCHANGED <<retryCount, waits, thrown, mergeVars, syncVars, pureVars>>

\* part_002 285-326: axios.get fails with e, or the response has the wrong
\* shape ("invalid"); the catch block decides
FetchError(e) ==
  /\ fpc = "request"
  /\ e = "429" => Len(SelectSeq(outcomes, LAMBDA o : o = "429")) < Max429
  /\ outcomes' = Append(outcomes, e)
  /\ IF IsAxiosError(e) /\ e = "429"
     THEN fpc' = "cooldown" /\ UNCHANGED thrown
     ELSE IF IsAxiosError(e) /\ retryCount < MAX_RETRIES
     THEN fpc' = "backoff" /\ UNCHANGED thrown
     ELSE fpc' = "thrown" /\ thrown' = e
  /\ UNCHANGED <<retryCount, waits, mergeVars, syncVars, pureVars>>

\* part_002 309-314: sleep(60000), then the same request again
CooldownThenRetry ==
  /\ fpc = "cooldown"
  /\ waits' = Append(waits, RateLimitCooldown)
  /\ retryCount' = RetryCountAfter429(retryCount)
  /\ fpc' = "request"
  /\ UNCHANGED <<outcomes, thrown, mergeVars, syncVars, pureVars>>

\* part_002 316-322: sleep(backoff), then fetchLifelogs(..., retryCount + 1)
BackoffThenRetry ==
  /\ fpc = "backoff"
  /\ waits' = Append(waits, Backoff(retryCount))
  /\ retryCount' = retryCount + 1
  /\ fpc' = "request"
  /\ UNCHANGED <<outcomes, thrown, mergeVars, syncVars, pureVars>>

\* the call is over; the sync loop may call again
FetchOver ==
  /\ fpc \in {"returned", "thrown"}
  /\ fpc' = "idle"
  /\ retryCount' = 0
  /\ outcomes' = <<>>
  /\ waits' = <<>>
  /\ thrown' = "none"
  /\ UNCHANGED <<mergeVars, syncVars, pureVars>>

FetchStart ==
  /\ fpc = "idle"
  /\ retryCount = 0
  /\ outcomes = <<>>
  /\ waits = <<>>
  /\ thrown = "none"

(***************************************************************************)
(* The sync state store (part_002 80-110) as one process after the other   *)
(* uses it, over every state file a process may find.                      *)
(***************************************************************************)
Attempts == {[timestamp |-> t, at |-> NULL] : t \in 0..1}

\* the JSON objects of a state file: each property present or not; a list of
\* empty days as JSON holds it, where a date may occur twice
StateObjects ==
  {[k \in D |->
      CASE k = "lastSyncTime" -> l
        [] k = "failedAttempts" -> f
        [] k = "emptyDays" -> e] :
     D \in SUBSET {"lastSyncTime", "failedAttempts", "emptyDays"},
     l \in {NULL, 0},
     f \in {<<>>} \cup {<<a>> : a \in Attempts},
     e \in {<<>>, <<0>>, <<0, 0>>, <<1, 0>>}}

StateFiles == {ABSENT, CORRUPT, JSONNULL} \cup {Json(o) : o \in StateObjects}

NothingSaved == [valid |-> FALSE, state |-> DefaultState]

\* part_002 342: let syncState = await loadSyncState()
StoreLoad ==
  /\ spc = "idle"
  /\ mem' = loadSyncState(store)
  /\ spc' = "loaded"
  /\ UNCHANGED <<store, lastSaved, notStoreVars>>

\* part_002 222-226: syncState.emptyDays.delete(date), for a date with records
StoreDeleteEmptyDay(d) ==
  /\ spc \in {"loaded", "running"}
  /\ Has(mem, "emptyDays")
  /\ mem' = DeleteEmptyDays(mem, <<[id |-> 1, startTime |-> d * TicksPerDay]>>)
  /\ spc' = "running"
  /\ UNCHANGED <<store, lastSaved, notStoreVars>>

\* part_002 456-459, 567-570: syncState.lastSyncTime = now; saveSyncState
StoreCheckpoint(t) ==
  /\ spc \in {"loaded", "running"}
  /\ mem' = Assign(mem, "lastSyncTime", t)
  /\ store' = saveSyncState(mem')
  /\ lastSaved' = [valid |-> TRUE, state |-> mem']
  /\ spc' = "running"
  /\ UNCHANGED <<notStoreVars>>

\* part_002 597-606: syncState.failedAttempts.push(...); saveSyncState; throw.
\* The push raises a TypeError when the object has no failedAttempts.
StoreRecordFailure(a) ==
  /\ spc \in {"loaded", "running"}
  /\ IF Has(mem, "failedAttempts")
     THEN /\ Len(mem.failedAttempts) < MaxStoreFailures
          /\ mem' = RecordFailure(mem, a)
          /\ store' = saveSyncState(mem')
          /\ lastSaved' = [valid |-> TRUE, state |-> mem']
          /\ spc' = "failed"
     ELSE /\ spc' = "raised"
          /\ UNCHANGED <<mem, store, lastSaved>>
  /\ UNCHANGED <<notStoreVars>>

\* the process ends; the next one starts from the file
StoreExit ==
  /\ spc \in {"loaded", "running", "raised", "failed"}
  /\ spc' = "idle"
  /\ mem' = DefaultState
  /\ UNCHANGED <<store, lastSaved, notStoreVars>>

DirStart == others = {}

(***************************************************************************)
(* The text of a date file (part_002 232-273).  A text is the list of its  *)
(* pieces: words, marks, spaces and line ends.                             *)
(***************************************************************************)
MaxLifelogs == 2
MaxItems == 2

Whitespace == {" ", "\n"}

\* item.content: empty, blank, a word
Contents == {<<>>, <<" ">>, <<"a">>}

\* item.speakerName: <<>> stands for a missing, null or empty name
SpeakerNames == {<<>>, <<"Al">>}

Items ==
  {[type |-> t, content |-> c, speakerName |-> <<>>, startTime |-> 0] :
     t \in {"heading1", "heading2", "heading3", "paragraph"}, c \in Contents}
  \cup {[type |-> "blockquote", content |-> c, speakerName |-> n, startTime |-> 0] :
          c \in Contents, n \in SpeakerNames}

SeqsUpTo(S, n) == UNION {[1..k -> S] : k \in 0..n}

\* a record: with a contents list, or with none (isList FALSE)
RenderedLifelogs ==
  {[isList |-> FALSE, contents |-> <<>>]}
  \cup {[isList |-> TRUE, contents |-> c] : c \in SeqsUpTo(Items, MaxItems)}

\* part_002 252: new Date(item.startTime).toLocaleTimeString()
toLocaleTimeString(t) == <<IF t = 0 THEN "12:00:00 AM" ELSE "12:00:01 AM">>

\* part_002 243-256: the switch on item.type
renderItem(item) ==
  CASE item.type = "heading1" -> <<"#", " ">> \o item.content \o <<"\n">>
    [] item.type = "heading2" -> <<"##", " ">> \o item.content \o <<"\n">>
    [] item.type = "heading3" -> <<"###", " ">> \o item.content \o <<"\n">>
    [] item.type = "blockquote" ->
         LET speaker == IF item.speakerName # <<>> THEN item.speakerName
                        ELSE <<"Unknown">>
             time == toLocaleTimeString(item.startTime)
         IN <<">", " ", "**">> \o speaker \o <<"**", " ", "(">> \o time
              \o <<")", ":", " ">> \o item.content \o <<"\n">>
    [] OTHER -> item.content \o <<"\n">>

\* Array.prototype.join
RECURSIVE join(_, _)
join(texts, sep) ==
  IF texts = <<>> THEN <<>>
  ELSE IF Len(texts) = 1 THEN texts[1]
  ELSE texts[1] \o sep \o join(Tail(texts), sep)

\* content.trim() is a non-empty string
trimIsTruthy(text) == \E k \in 1..Len(text) : text[k] \notin Whitespace

\* part_002 239-259: the text of one record
renderLifelog(lifelog) ==
  IF ~lifelog.isList THEN <<>>
  ELSE join([k \in 1..Len(lifelog.contents) |-> renderItem(lifelog.contents[k])],
            <<"\n">>)

\* part_002 237-261
markdownContent(lifelogs) ==
  join(SelectSeq([k \in 1..Len(lifelogs) |-> renderLifelog(lifelogs[k])], trimIsTruthy),
       <<"\n", "\n">>)

NoText == <<"(no file)">>

\* part_002 232-265: the file is written
WriteMarkdown ==
  /\ rpc = "call"
  /\ mdText' = markdownContent(logsArg)
  /\ rpc' = "written"
  /\ UNCHANGED <<logsArg, mergeVars, syncVars, fetchVars, storeVars, dirVars, getVars,
                 peekVars, loopVars>>

\* part_002 266-272: fs.writeFile fails, the error is thrown on
WriteMarkdownFails ==
  /\ rpc = "call"
  /\ rpc' = "thrown"
  /\ UNCHANGED <<logsArg, mdText, mergeVars, syncVars, fetchVars, storeVars, dirVars,
                 getVars, peekVars, loopVars>>

RenderStart ==
  /\ logsArg = <<>>
  /\ mdText = NoText
  /\ rpc = "call"

(***************************************************************************)
(* getLifelogs (part_001 12-98).                                           *)
(***************************************************************************)
MaxTotal == 3
MaxLimit == 4
MaxBatchSize == 2
MaxPages == 4

\* the page at a cursor: a cursor is the offset of its page
GetPageAt(c, size) ==
  LET o == IF c = NULL THEN 0 ELSE c
  IN [k \in 1..(Min(o + size, total) - Min(o, total)) |-> o + k]

\* the nextCursor that may come with it: the next offset while records
\* remain; at the end none, or once more a cursor for an empty page
GetNextCursors(c, size) ==
  LET o == IF c = NULL THEN 0 ELSE c
  IN IF o + size < total THEN {o + size}
     ELSE IF o < total THEN {NULL, o + size}
     ELSE {NULL}

NoPage == [lifelogs |-> <<>>, nextCursor |-> NULL]

\* part_001 58-66: the page reaches the limit: return allLifelogs.slice(0, limit)
GetReachesLimit ==
  /\ gpc = "request"
  /\ pages < MaxPages
  /\ \E nc \in GetNextCursors(getCursor, batchSize) :
       LET lifelogs == GetPageAt(getCursor, batchSize)
           all == allLifelogs \o lifelogs
       IN /\ limit # NULL /\ Len(all) >= limit
          /\ allLifelogs' = all
          /\ result' = SubSeq(all, 1, limit)
          /\ lastPage' = [lifelogs |-> lifelogs, nextCursor |-> nc]
  /\ gpc' = "returned"
  /\ pages' = pages + 1
  /\ UNCHANGED <<total, limit, batchSize, getCursor, retries,
                 mergeVars, syncVars, fetchVars, storeVars, dirVars, renderVars, peekVars,
                 loopVars>>

\* part_001 68-74: no next cursor, or a short page: break.  The break leaves
\* the retry loop of line 50; the while (true) of line 34 goes round again
\* with the cursor it had.
GetBreaksWhenDone ==
  /\ gpc = "request"
  /\ pages < MaxPages
  /\ \E nc \in GetNextCursors(getCursor, batchSize) :
       LET lifelogs == GetPageAt(getCursor, batchSize)
           all == allLifelogs \o lifelogs
       IN /\ ~(limit # NULL /\ Len(all) >= limit)
          /\ nc = NULL \/ Len(lifelogs) < batchSize
          /\ allLifelogs' = all
          /\ lastPage' = [lifelogs |-> lifelogs, nextCursor |-> nc]
  /\ retries' = 0
  /\ pages' = pages + 1
  /\ UNCHANGED <<total, limit, batchSize, getCursor, gpc, result,
                 mergeVars, syncVars, fetchVars, storeVars, dirVars, renderVars, peekVars,
                 loopVars>>

\* part_001 76-80: cursor = nextCursor; break, and the next request
GetContinues ==
  /\ gpc = "request"
  /\ pages < MaxPages
  /\ \E nc \in GetNextCursors(getCursor, batchSize) :
       LET lifelogs == GetPageAt(getCursor, batchSize)
           all == allLifelogs \o lifelogs
       IN /\ ~(limit # NULL /\ Len(all) >= limit)
          /\ ~(nc = NULL \/ Len(lifelogs) < batchSize)
          /\ allLifelogs' = all
          /\ lastPage' = [lifelogs |-> lifelogs, nextCursor |-> nc]
          /\ getCursor' = nc
  /\ retries' = 0
  /\ pages' = pages + 1
  /\ UNCHANGED <<total, limit, batchSize, gpc, result,
                 mergeVars, syncVars, fetchVars, storeVars, dirVars, renderVars, peekVars,
                 loopVars>>

\* part_001 81-92: the request fails; sleep and try again
GetRetries ==
  /\ gpc = "request"
  /\ retries + 1 # MAX_RETRIES
  /\ retries' = retries + 1
  /\ UNCHANGED <<total, limit, batchSize, allLifelogs, getCursor, gpc, result, lastPage,
                 pages, mergeVars, syncVars, fetchVars, storeVars, dirVars, renderVars, peekVars,
                 loopVars>>

\* part_001 83-90: the request fails for the MAX_RETRIES-th time
GetThrows ==
  /\ gpc = "request"
  /\ retries + 1 = MAX_RETRIES
  /\ retries' = retries + 1
  /\ gpc' = "thrown"
  /\ UNCHANGED <<total, limit, batchSize, allLifelogs, getCursor, result, lastPage,
                 pages, mergeVars, syncVars, fetchVars, storeVars, dirVars, renderVars, peekVars,
                 loopVars>>

\* part_001 25-26, 49: a call at its first request
GetCalled ==
  /\ allLifelogs = <<>>
  /\ getCursor = NULL
  /\ retries = 0
  /\ gpc = "request"
  /\ result = <<>>
  /\ lastPage = NoPage
  /\ pages = 0

GetStart ==
  /\ total = 0
  /\ limit = NULL
  /\ batchSize = 1
  /\ GetCalled

(***************************************************************************)
(* The exporter that peeks the latest record (export.js 158-463).  It uses *)
(* the world of the sync model and its pc, exit, syncState, cursor and     *)
(* response.                                                               *)
(***************************************************************************)
\* export.js 220
PeekDefaultState == [lastCursor |-> NULL, lastSyncTime |-> NULL, failedAttempts |-> <<>>]

\* export.js 209-212: JSON.stringify(state)
PeekSaveSyncState(state) == Json(state)

\* export.js 214-222, for a file the exporter wrote or none
PeekLoadSyncState(f) == IF f.kind = "json" THEN f.data ELSE PeekDefaultState

RECURSIVE Reverse(_)
Reverse(s) == IF s = <<>> THEN <<>> ELSE Append(Reverse(Tail(s)), Head(s))

\* export.js 381-393: a page of the request with direction asc, oldest first
PeekPage(c) ==
  LET o == IF c = NULL THEN 0 ELSE c
      all == Reverse(DescSeq(remote))
  IN SubSeq(all, o + 1, Min(o + BATCH_SIZE, Len(all)))

\* By how many ticks the local day before that of the latest record is longer
\* (+1) or shorter (-1) than a day: 0 in a zone without daylight saving, as
\* UTC is.
ZoneShifts == {0 - 1, 0, 1}

\* export.js 356-358: safeDate.setDate(safeDate.getDate() - 1) moves the
\* local calendar day back by one and keeps the local time of day; the date
\* is then read in UTC by toISOString().split("T")[0]
PreviousDay(t, shift) == DateOf(t - TicksPerDay - shift)

\* export.js 401-410: lastLifelogDate >= safeDateStr
ReachedSafeDate(lifelogs) == DateOf(lifelogs[Len(lifelogs)].startTime) >= safeDateStr

notPeekVars == <<fullSync, today, endDate, currentDate, consecutiveEmptyDays,
                 histVars, reqVars, mergeVars, fetchVars, storeVars, dirVars,
                 renderVars, getVars, loopVars>>

\* export.js 327-378: load, peek at the latest record, safe point, up-to-date check
PeekStartRun ==
  /\ pc = "idle"
  /\ LET state == PeekLoadSyncState(stateFile)
         latest == DescSeq(remote)
     IN /\ syncState' = state
        /\ IF latest = <<>>
           THEN /\ safeDateStr' = NULL
                /\ cursor' = NULL
                /\ Finish("complete")
           ELSE \E shift \in ZoneShifts :
                  LET safe == PreviousDay(latest[1].startTime, shift)
                  IN /\ safeDateStr' = safe
                     /\ IF state.lastSyncTime # NULL /\ DateOf(state.lastSyncTime) >= safe
                        THEN /\ cursor' = NULL
                             /\ Finish("complete")
                        ELSE /\ cursor' = state.lastCursor
                             /\ pc' = "fetch"
                             /\ exit' = "running"
  /\ UNCHANGED <<worldVars, response, peekDone, notPeekVars>>

\* export.js 345, 451-460: the peek request fails; process.exit(1)
PeekRequestFails ==
  /\ pc = "idle"
  /\ syncState' = PeekLoadSyncState(stateFile)
  /\ Finish("failed")
  /\ UNCHANGED <<worldVars, cursor, response, safeDateStr, peekDone, notPeekVars>>

\* export.js 380-394: the request of the ascending walk is answered
PeekFetch ==
  /\ pc = "fetch"
  /\ \E nc \in RemoteNextCursors(cursor) :
       response' = [lifelogs |-> PeekPage(cursor), nextCursor |-> nc]
  /\ pc' = "page"
  /\ UNCHANGED <<worldVars, exit, syncState, cursor, safeDateStr, peekDone, notPeekVars>>

\* export.js 430-447, 451-460: the request, or the write of a file or of the
\* state, throws; the attempt is recorded and saved, if the save succeeds
PeekAttemptFails ==
  /\ pc \in {"fetch", "page"}
  /\ Len(syncState.failedAttempts) < MaxFailures
  /\ syncState' = RecordFailure(syncState, [timestamp |-> Now, at |-> cursor])
  /\ \E saved \in BOOLEAN :
       stateFile' = IF saved THEN PeekSaveSyncState(syncState') ELSE stateFile
  /\ Finish("failed")
  /\ UNCHANGED <<day, remote, mdFiles, cursor, response, safeDateStr, peekDone, notPeekVars>>

\* export.js 396-410: no records, or the last record of the page is dated at
\* or after the safe point: break
PeekStops ==
  /\ pc = "page"
  /\ IF response.lifelogs = <<>> THEN TRUE ELSE ReachedSafeDate(response.lifelogs)
  /\ Finish("complete")
  /\ UNCHANGED <<worldVars, syncState, cursor, response, safeDateStr, peekDone, notPeekVars>>

\* export.js 412-429: write the files of the page, save the cursor, sleep,
\* and leave the loop after the last page
PeekProcessPage ==
  /\ pc = "page"
  /\ response.lifelogs # <<>>
  /\ ~ReachedSafeDate(response.lifelogs)
  /\ mdFiles' = processLifelogs(response.lifelogs)
  /\ cursor' = response.nextCursor
  /\ syncState' = [syncState EXCEPT !.lastCursor = cursor', !.lastSyncTime = Now]
  /\ stateFile' = PeekSaveSyncState(syncState')
  /\ IF cursor' = NULL \/ Len(response.lifelogs) < BATCH_SIZE
     THEN Finish("complete")
     ELSE pc' = "fetch" /\ UNCHANGED exit
  /\ peekDone' = peekDone \cup {IF cursor = NULL THEN 0 ELSE cursor}
  /\ UNCHANGED <<day, remote, response, safeDateStr, notPeekVars>>

\* the process ends
PeekExit ==
  /\ pc = "done"
  /\ pc' = "idle"
  /\ exit' = "none"
  /\ syncState' = DefaultState
  /\ cursor' = NULL
  /\ response' = NoResponse
  /\ safeDateStr' = NULL
  /\ UNCHANGED <<worldVars, peekDone, notPeekVars>>

\* While a run is between two requests the remote loses its latest record
\* (a lifelog is deleted).
RemoteDelete ==
  /\ pc = "fetch"
  /\ remote # {}
  /\ LET latest == DescSeq(remote)[1]
     IN /\ latest.id = Cardinality(remote)
        /\ remote' = remote \ {latest}
  /\ UNCHANGED <<day, mdFiles, stateFile, runVars, safeDateStr, peekDone, notPeekVars>>

PeekStart == safeDateStr = NULL /\ peekDone = {}

(***************************************************************************)
(* The request loop of the JSON exporter (export.js 83-154).               *)
(***************************************************************************)
MaxJsonRemote == 5

OffsetOf(c) == IF c = NULL THEN 0 ELSE c

\* how many records the page at a cursor holds: a cursor is the offset of its page
JsonPageLen(c) ==
  Min(OffsetOf(c) + BATCH_SIZE, jsonRemote) - Min(OffsetOf(c), jsonRemote)

\* the nextCursor that may come with it: the next offset while records
\* remain; at the end none, or once more a cursor for an empty page
JsonNextCursors(c) ==
  IF OffsetOf(c) + BATCH_SIZE < jsonRemote THEN {OffsetOf(c) + BATCH_SIZE}
  ELSE IF OffsetOf(c) < jsonRemote THEN {NULL, OffsetOf(c) + BATCH_SIZE}
  ELSE {NULL}

Requested == [timesRequested EXCEPT ![OffsetOf(jsonCursor)] = @ + 1]

\* export.js 54-56 (appendToFile) catches the error of fs.writeFile, so
\* processLifelogs of line 119 returns whether or not the files were written
AfterProcessLifelogs(writeOk) ==
  IF writeOk THEN onDisk \cup {OffsetOf(jsonCursor)} ELSE onDisk

notLoopVars == <<mergeVars, syncVars, fetchVars, storeVars, dirVars, renderVars,
                 getVars, peekVars>>

\* export.js 108-128: the page is fetched and processed; no next cursor, or
\* a short page: return
JsonCompletes ==
  /\ jpc = "request"
  /\ \E nc \in JsonNextCursors(jsonCursor), writeOk \in BOOLEAN :
       /\ nc = NULL \/ JsonPageLen(jsonCursor) < BATCH_SIZE
       /\ onDisk' = AfterProcessLifelogs(writeOk)
  /\ timesRequested' = Requested
  /\ jpc' = "done"
  /\ jsonExit' = "0"
  /\ UNCHANGED <<jsonRemote, jsonCursor, jsonRetries, notLoopVars>>

\* export.js 108-132, 94-106: the page is fetched and processed; cursor =
\* nextCursor, break, and the next round of while (true) with retries = 0
JsonAdvances ==
  /\ jpc = "request"
  /\ \E nc \in JsonNextCursors(jsonCursor), writeOk \in BOOLEAN :
       /\ ~(nc = NULL \/ JsonPageLen(jsonCursor) < BATCH_SIZE)
       /\ onDisk' = AfterProcessLifelogs(writeOk)
       /\ jsonCursor' = nc
  /\ timesRequested' = Requested
  /\ jsonRetries' = 0
  /\ UNCHANGED <<jsonRemote, jpc, jsonExit, notLoopVars>>

\* export.js 133-146: the try block throws; sleep(1000 * retries), again
JsonRetry ==
  /\ jpc = "request"
  /\ jsonRetries + 1 # MAX_RETRIES
  /\ jsonRetries' = jsonRetries + 1
  /\ timesRequested' = Requested
  /\ UNCHANGED <<jsonRemote, jsonCursor, jpc, jsonExit, onDisk, notLoopVars>>

\* export.js 133-142, 149-152: the try block throws for the MAX_RETRIES-th
\* time; the error goes to the outer catch: process.exit(1)
JsonGivesUp ==
  /\ jpc = "request"
  /\ jsonRetries + 1 = MAX_RETRIES
  /\ jsonRetries' = jsonRetries + 1
  /\ timesRequested' = Requested
  /\ jpc' = "done"
  /\ jsonExit' = "1"
  /\ UNCHANGED <<jsonRemote, jsonCursor, onDisk, notLoopVars>>

\* export.js 92, 106: the loop at its first request
JsonCalled ==
  /\ jsonCursor = NULL
  /\ jsonRetries = 0
  /\ jpc = "request"
  /\ jsonExit = "running"
  /\ timesRequested = [o \in 0..(jsonRemote + BATCH_SIZE) |-> 0]
  /\ onDisk = {}

LoopStart == jsonRemote = 0 /\ JsonCalled

LaterStart == RenderStart /\ GetStart /\ PeekStart /\ LoopStart


StoreStart ==
  /\ store = ABSENT
  /\ mem = DefaultState
  /\ spc = "idle"
  /\ lastSaved = NothingSaved

(***************************************************************************)
(* The specifications.                                                     *)
(***************************************************************************)
InitMerge == MergeStart /\ SyncStart /\ FetchStart /\ StoreStart /\ DirStart /\ LaterStart

NextMerge ==
  \/ \E r \in Batches : appendToFile(r)
  \/ ExportCompleted
  \/ ExportFailed
  \/ NewRun
  \/ DamageFile

SpecMerge == InitMerge /\ [][NextMerge]_vars

InitSync == MergeStart /\ SyncStart /\ FetchStart /\ StoreStart /\ DirStart /\ LaterStart

NextSync ==
  \/ \E fs \in BOOLEAN : StartRun(fs)
  \/ FetchPage
  \/ FetchDate
  \/ FullSyncDone
  \/ FetchFails
  \/ EmptyDate
  \/ ProcessDate
  \/ EmptyPage
  \/ StopAtEndDate
  \/ ProcessPage
  \/ SaveCheckpoint
  \/ SaveCheckpointFails
  \/ SleepThenPreviousDay
  \/ SleepThenContinue
  \/ KillBeforeCheckpoint
  \/ ProcessExit
  \/ NextDay
  \/ \E t \in 0..(NDays * TicksPerDay - 1) : RemoteAdd(t)

SpecSync == InitSync /\ [][NextSync]_vars

InitFetch == MergeStart /\ SyncStart /\ FetchStart /\ StoreStart /\ DirStart /\ LaterStart

NextFetch ==
  \/ FetchCall
  \/ FetchSucceeds
  \/ \E e \in Transient \cup {"429", "invalid"} : FetchError(e)
  \/ CooldownThenRetry
  \/ BackoffThenRetry
  \/ FetchOver

SpecFetch == InitFetch /\ [][NextFetch]_vars

InitStore ==
  /\ MergeStart /\ SyncStart /\ FetchStart /\ DirStart /\ LaterStart
  /\ store \in StateFiles
  /\ mem = DefaultState
  /\ spc = "idle"
  /\ lastSaved = NothingSaved

NextStore ==
  \/ StoreLoad
  \/ \E d \in 0..1 : StoreDeleteEmptyDay(d)
  \/ \E t \in 0..1 : StoreCheckpoint(t)
  \/ \E a \in Attempts : StoreRecordFailure(a)
  \/ StoreExit

SpecStore == InitStore /\ [][NextStore]_vars

\* createMarkdownFile is called with any list of records.
InitRender ==
  /\ MergeStart /\ SyncStart /\ FetchStart /\ StoreStart /\ DirStart /\ GetStart /\ PeekStart
  /\ LoopStart
  /\ logsArg \in SeqsUpTo(RenderedLifelogs, MaxLifelogs)
  /\ mdText = NoText
  /\ rpc = "call"

NextRender ==
  \/ WriteMarkdown
  \/ WriteMarkdownFails

SpecRender == InitRender /\ [][NextRender]_vars

\* getLifelogs is called with any limit and batch size on any remote.
InitGet ==
  /\ MergeStart /\ SyncStart /\ FetchStart /\ StoreStart /\ DirStart /\ RenderStart
  /\ PeekStart /\ LoopStart
  /\ total \in 0..MaxTotal
  /\ limit \in {NULL} \cup 0..MaxLimit
  /\ \E b \in 1..MaxBatchSize : batchSize = IF limit # NULL THEN Min(b, limit) ELSE b
  /\ GetCalled

NextGet ==
  \/ GetReachesLimit
  \/ GetBreaksWhenDone
  \/ GetContinues
  \/ GetRetries
  \/ GetThrows

SpecGet == InitGet /\ [][NextGet]_vars

InitPeek == MergeStart /\ SyncStart /\ FetchStart /\ StoreStart /\ DirStart /\ LaterStart

NextPeek ==
  \/ PeekStartRun
  \/ PeekRequestFails
  \/ PeekFetch
  \/ PeekAttemptFails
  \/ PeekStops
  \/ PeekProcessPage
  \/ PeekExit
  \/ RemoteDelete
  \/ NextDay
  \/ \E t \in 0..(NDays * TicksPerDay - 1) : RemoteAdd(t)

SpecPeek == InitPeek /\ [][NextPeek]_vars

\* The JSON exporter runs against a remote of any size.
InitLoop ==
  /\ MergeStart /\ SyncStart /\ FetchStart /\ StoreStart /\ DirStart
  /\ RenderStart /\ GetStart /\ PeekStart
  /\ jsonRemote \in 0..MaxJsonRemote
  /\ JsonCalled

NextLoop ==
  \/ JsonCompletes
  \/ JsonAdvances
  \/ JsonRetry
  \/ JsonGivesUp

SpecLoop == InitLoop /\ [][NextLoop]_vars

(***************************************************************************)
(* One run of exportLifelogs (part_002 329-624) with the calls of          *)
(* fetchLifelogs (part_002 275-327) it makes: every request of the sync    *)
(* loop is a call, answered when the call returns and failed when it       *)
(* throws.                                                                 *)
(***************************************************************************)
\* part_002 430, 513: the sync loop calls fetchLifelogs
RunCallsFetch ==
  /\ pc = "fetch"
  /\ fullSync => DateGe(currentDate, endDate)
  /\ FetchCall

\* what fetchLifelogs meets: no answer, a 429, a response of the wrong shape
RunFetchError == \E e \in {"network", "429", "invalid"} : FetchError(e)

\* part_002 513-515: fetchLifelogs has returned the page
RunFetchPage == fpc = "returned" /\ FetchPage

\* part_002 430-431: fetchLifelogs has returned the records of the date
RunFetchDate == fpc = "returned" /\ FetchDate

\* part_002 467, 589: fetchLifelogs has thrown
RunFetchFails == fpc = "thrown" /\ FetchFails

\* the call is over once the sync loop has its result
RunFetchOver == pc \in {"page", "done"} /\ FetchOver

\* part_002 432-454, 517-566: the sync loop goes on with what the call returned
RunTakesPage ==
  /\ fpc = "idle"
  /\ EmptyDate \/ ProcessDate \/ EmptyPage \/ StopAtEndDate \/ ProcessPage

\* the remotes of a run: records 1..n with start times in id order
RunRemotes ==
  {{[id |-> k, startTime |-> g[k]] : k \in DOMAIN g} :
     g \in {h \in UNION {[1..m -> 0..(NDays * TicksPerDay - 1)] : m \in 0..MaxRecords} :
              \A i, j \in DOMAIN h : i <= j => h[i] <= h[j]}}

\* A run starts on the last day over any remote, any date files of the days
\* before and the state file of a run of the same day, or none.
InitRun ==
  /\ MergeStart /\ FetchStart /\ StoreStart /\ DirStart /\ LaterStart
  /\ day = NDays - 1
  /\ remote \in RunRemotes
  /\ mdFiles \in [Days -> {ABSENT, Md(<<[id |-> 1, startTime |-> 0]>>)}]
  /\ mdFiles[day] = ABSENT
  /\ stateFile \in {ABSENT, saveSyncState([DefaultState EXCEPT !.lastSyncTime = Now])}
  /\ RunStart
  /\ lateIds = {}
  /\ prior = NoPrior
  /\ everWritten = {}
  /\ kills = 0

NextRun ==
  \/ \E fs \in BOOLEAN : StartRun(fs)
  \/ RunCallsFetch
  \/ FetchSucceeds
  \/ RunFetchError
  \/ CooldownThenRetry
  \/ BackoffThenRetry
  \/ RunFetchOver
  \/ RunFetchPage
  \/ RunFetchDate
  \/ RunFetchFails
  \/ FullSyncDone
  \/ RunTakesPage
  \/ SaveCheckpoint
  \/ SaveCheckpointFails
  \/ SleepThenPreviousDay
  \/ SleepThenContinue

\* the process runs on: it takes its next step as long as it has one
SpecRun == InitRun /\ [][NextRun]_vars /\ WF_vars(NextRun)

\* A run starts on any day over any archive directory: date files up to
\* today and any other entries.
InitDir ==
  /\ MergeStart /\ FetchStart /\ StoreStart /\ LaterStart
  /\ day \in Days
  /\ remote = {}
  /\ mdFiles \in [Days -> {ABSENT, Md(<<[id |-> 1, startTime |-> 0]>>)}]
  /\ \A d \in Days : d > day => mdFiles[d] = ABSENT
  /\ stateFile = ABSENT
  /\ RunStart
  /\ lateIds = {}
  /\ prior = NoPrior
  /\ everWritten = {}
  /\ kills = 0
  /\ others \in SUBSET OtherNames

NextDir == \E fs \in BOOLEAN : StartRun(fs)

SpecDir == InitDir /\ [][NextDir]_vars

(***************************************************************************)
(* Claims about appendToFile.                                              *)
(***************************************************************************)
IdsOf(s) == {s[k].id : k \in 1..Len(s)}
NoDuplicateIds(s) == \A j, k \in 1..Len(s) : s[j].id = s[k].id => j = k
NonDecreasing(s) == \A j, k \in 1..Len(s) : j < k => s[j].startTime <= s[k].startTime
Written == outcome = "written"
LastBatch == batches[Len(batches)]

\* C1: after any sequence of merges the file holds no two records with one id
\* and its records are non-decreasing by startTime.
C1_DedupAndOrder ==
  Written => NoDuplicateIds(file.data) /\ NonDecreasing(file.data)

\* C2: merging the batch just merged a second time leaves the file as it is.
C2_Idempotent ==
  Written => uniqueData(file, LastBatch) = file.data

\* Every id carries one startTime in the file of the run's start and the batches.
FixedStartTimes ==
  LET all == existingData(base) \o batches[1] \o batches[2]
  IN \A j, k \in 1..Len(all) : all[j].id = all[k].id => all[j].startTime = all[k].startTime

TwoMerged == Len(batches) = 2 /\ Written

\* C3: with fixed startTimes, R1 then R2 gives the file that R1 and R2 in one
\* batch give, and that R2 then R1 gives.
C3_OrderOfArrival ==
  (TwoMerged /\ FixedStartTimes) =>
     /\ file.data = uniqueData(base, batches[1] \o batches[2])
     /\ file.data = uniqueData(Json(uniqueData(base, batches[2])), batches[1])

\* C4: a merge that succeeds loses no record: the ids of the file are those of
\* the file before and those of the batch, each once.
C4_NoRecordLost ==
  (Len(batches) = 1 /\ Written) =>
     /\ IdsOf(file.data) = IdsOf(existingData(base)) \cup IdsOf(batches[1])
     /\ NoDuplicateIds(file.data)

\* an existing [a] merged with a batch of a and b gives a file of a and b
C4_Witness ==
  /\ Len(batches) = 1 /\ Written
  /\ IdsOf(base.data) = {1}
  /\ IdsOf(batches[1]) = {1, 2}
  /\ IdsOf(file.data) = {1, 2}

(***************************************************************************)
(* Claims about the markdown exporter.                                     *)
(***************************************************************************)
\* the record is in the file of its date
InFile(r) ==
  LET f == mdFiles[DateOf(r.startTime)]
  IN f.kind = "md" /\ \E k \in 1..Len(f.data) : f.data[k] = r

Completed == pc = "done" /\ exit = "complete"

\* C5: the file of a date holds every record written for that date so far, also
\* when the records of the date came in more than one batch.
C5_RenderedFromUnion ==
  \A r \in everWritten : InFile(r)

\* C6: when an incremental run ends complete, every record of every page it
\* fetched whose date is later than the lower bound is in the file of its date
\* (here: of the runs of a process that was never killed).
C6_FetchedPagesArchived ==
  (Completed /\ ~fullSync /\ kills = 0) =>
     \A r \in fetched : DateOf(r.startTime) > endDate => InFile(r)

\* C7: a record that appeared remotely on the latest archived date after that
\* date's file was written is in the archive when the next incremental run
\* that is not short-circuited ends complete.
C7_LatestDateRechecked ==
  (Completed /\ ~fullSync /\ ~shortCircuited /\ kills = 0) =>
     \A r \in remote :
        (r.id \in lateIds /\ DateOf(r.startTime) = endDate) => InFile(r)

\* the records the remote already held when the run before ended
KnownToPrior == {r \in remote : r.id <= prior.known}

\* C8: the incremental run after a failed run that had checkpointed a page is
\* no no-op, and when it ends complete every remote record newer than the
\* failed run's lower bound is in the archive (here: every such record the
\* remote held already when the run failed).
C8_ResumeAfterFailure ==
  (/\ Completed /\ ~fullSync /\ kills = 0
   /\ prior.exit = "failed" /\ ~prior.fullSync /\ prior.checkpointed) =>
     /\ ~shortCircuited
     /\ \A r \in KnownToPrior : DateOf(r.startTime) > prior.endDate => InFile(r)

NoDuplicateRecords(s) == \A j, k \in 1..Len(s) : s[j].id = s[k].id => j = k

\* C9: the incremental run after a run killed between a merge and its
\* checkpoint leaves no record duplicated in a file and none lost (here: none
\* of the records the remote held already when the run was killed).
C9_ResumeAfterKill ==
  (/\ Completed /\ ~fullSync
   /\ prior.exit = "killed" /\ ~prior.fullSync) =>
     /\ \A d \in Days : NoDuplicateRecords(mdFiles[d].data)
     /\ \A r \in KnownToPrior : DateOf(r.startTime) > prior.endDate => InFile(r)

\* C10: the checkpoint of a page is saved only when the files of the page are
\* written, and the next request is issued only when the checkpoint of a page
\* that was written is saved.
C10_MergeThenCheckpointThenRequest ==
  /\ pageSaved =>
        /\ stateFile.kind = "json" /\ stateFile.data.lastSyncTime = Now
        /\ \A k \in 1..Len(response.lifelogs) : InFile(response.lifelogs[k])
  /\ (pc = "fetch" /\ pageWritten) => pageSaved

\* the cursor walk is about to request the page after one written and saved
C10_Witness ==
  /\ pc = "fetch" /\ ~fullSync
  /\ Len(response.lifelogs) = BATCH_SIZE
  /\ pageWritten /\ pageSaved

(***************************************************************************)
(* Claims about the walk of exportLifelogs.                                *)
(***************************************************************************)
Range(s) == {s[k] : k \in 1..Len(s)}

\* the date walk has asked for currentDate, got no record and saved its state
EmptyDateSaved ==
  /\ fullSync /\ pc = "sleep"
  /\ response.lifelogs = <<>>
  /\ pageSaved

\* C11: after a request scoped to a date returned no record, the date is in
\* the emptyDays of the state saved after it; and after a request returned
\* records of a date, the date is not in emptyDays and its file is not empty.
C11_EmptyDayTracking ==
  /\ EmptyDateSaved =>
        /\ stateFile.kind = "json"
        /\ currentDate \in Range(stateFile.data.emptyDays)
  /\ pageWritten =>
        \A d \in DatesOf(response.lifelogs) :
           /\ d \notin Range(syncState.emptyDays)
           /\ mdFiles[d].kind = "md" /\ mdFiles[d].data # <<>>

\* the UTC date of the persisted lastSyncTime is today or later
CoversToday ==
  /\ stateFile.kind = "json"
  /\ stateFile.data.lastSyncTime # NULL
  /\ DateOf(stateFile.data.lastSyncTime) >= DateOf(Now)

\* C12: an incremental run started while the persisted lastSyncTime covers
\* today ends complete at once, with no request issued, no archive file written
\* and the persisted state unchanged; a full-sync run skips the check and goes
\* on to its walk.
C12_ShortCircuitNoOp ==
  [][(pc = "idle" /\ pc' # "idle") =>
       /\ (~fullSync' /\ CoversToday) =>
             /\ pc' = "done" /\ exit' = "complete"
             /\ asked' = <<>>
             /\ UNCHANGED <<mdFiles, stateFile>>
       /\ fullSync' => (pc' = "fetch" /\ exit' = "running")]_vars

C12_Witness ==
  /\ pc = "done" /\ exit = "complete"
  /\ ~fullSync /\ CoversToday
  /\ shortCircuited /\ asked = <<>>

\* the page in hand would let the cursor walk go on: a next cursor, a full
\* batch, and its oldest record dated after the lower bound
PageAsksForMore ==
  /\ response.nextCursor # NULL
  /\ Len(response.lifelogs) = BATCH_SIZE
  /\ DateOf(response.lifelogs[Len(response.lifelogs)].startTime) > endDate

\* C13: the cursor walk asks for a further page exactly when the page just
\* fetched had a next cursor, held a full batch and its oldest record is dated
\* after the lower bound; it ends at the first page that fails one of the three.
C13_CursorWalkContinuation ==
  /\ (~fullSync /\ pc = "fetch" /\ asked # <<>>) => PageAsksForMore
  /\ (~fullSync /\ Completed /\ asked # <<>>) => ~PageAsksForMore

\* the dates asked for so far are today, the day before, the day before that...
DescendingFromToday == \A k \in 1..Len(asked) : asked[k] = today - (k - 1)

\* the date walk has passed below its lower bound
BelowLowerBound == endDate # NULL /\ currentDate < endDate

\* C14: a full-sync run asks for the dates one at a time, today first and then
\* each previous day; it stops at the first of: the date is below the lower
\* bound, or FULL_SYNC_EMPTY_DAYS_THRESHOLD dates in a row came back empty. The
\* counter is back at 0 after a date with records and never exceeds the threshold.
C14_FullSyncDateWalk ==
  fullSync =>
    /\ DescendingFromToday
    /\ consecutiveEmptyDays <= FULL_SYNC_EMPTY_DAYS_THRESHOLD
    /\ pageWritten => consecutiveEmptyDays = 0
    /\ pc = "page" =>
          /\ ~BelowLowerBound
          /\ consecutiveEmptyDays < FULL_SYNC_EMPTY_DAYS_THRESHOLD
    /\ Completed =>
          /\ asked # <<>>
          /\ BelowLowerBound
               \/ consecutiveEmptyDays = FULL_SYNC_EMPTY_DAYS_THRESHOLD

\* C15: a full-sync run over an archive without dated files has no lower
\* bound: it asks for today and the days before it and ends only when
\* FULL_SYNC_EMPTY_DAYS_THRESHOLD dates in a row came back empty.
C15_FullSyncEmptyArchive ==
  (fullSync /\ endDate = NULL /\ pc # "idle") =>
     /\ pc # "fetch" => (asked # <<>> /\ asked[1] = today)
     /\ Completed => consecutiveEmptyDays = FULL_SYNC_EMPTY_DAYS_THRESHOLD

\* C16: when a fetch of the walk fails for good, the run appends exactly one
\* entry (the instant and the cursor or date of the request) to
\* failedAttempts, persists the state and ends failed; the archive files
\* written by earlier pages are left as they are and no request follows.
C16_FetchFailure ==
  [][/\ (pc = "fetch" /\ exit # "failed" /\ exit' = "failed") =>
          /\ pc' = "done"
          /\ Len(syncState'.failedAttempts) = Len(syncState.failedAttempts) + 1
          /\ syncState'.failedAttempts[Len(syncState'.failedAttempts)] =
                [timestamp |-> Now, at |-> IF fullSync THEN currentDate ELSE cursor]
          /\ stateFile'.kind = "json"
          /\ stateFile'.data.failedAttempts = syncState'.failedAttempts
          /\ mdFiles' = mdFiles
     /\ exit = "failed" => (pc' = "idle" /\ asked' = <<>> /\ UNCHANGED worldVars)]_vars

C16_Witness ==
  /\ pc = "done" /\ exit = "failed"
  /\ checkpointed
  /\ Len(asked) >= 2
  /\ Len(syncState.failedAttempts) = 1

\* C20: between two consecutive requests of the sync loop of a run one
\* RATE_LIMIT_DELAY sleep elapses, on every path through the loop.
C20_DelayBetweenRequests ==
  (pc = "fetch" /\ asked # <<>>) => slept

(***************************************************************************)
(* Claims about fetchLifelogs.                                             *)
(***************************************************************************)
\* the requests of the call that ended as one of E
CountOf(E) == Len(SelectSeq(outcomes, LAMBDA o : o \in E))

LastOutcome == outcomes[Len(outcomes)]

\* the sleeps of the call that were backoffs / cooldowns
BackoffWaits == SelectSeq(waits, LAMBDA w : w # RateLimitCooldown)
CooldownWaits == SelectSeq(waits, LAMBDA w : w = RateLimitCooldown)

\* C17: a call that meets no HTTP 429 issues at most MAX_RETRIES + 1 requests;
\* the wait before retry k (k = 0, 1, 2) is 1000 * 2^k ms; after the last retry
\* the call fails with the error of its last request.
C17_RetryCeilingAndBackoff ==
  CountOf({"429"}) = 0 =>
    /\ Len(outcomes) <= MAX_RETRIES + 1
    /\ Len(waits) <= MAX_RETRIES
    /\ \A k \in 0..(Len(waits) - 1) : waits[k + 1] = 1000 * 2^k
    /\ (fpc \in {"request", "backoff"} /\ outcomes # <<>>) => LastOutcome \in Transient
    /\ (fpc = "thrown" /\ LastOutcome \in Transient) =>
          /\ Len(outcomes) = MAX_RETRIES + 1
          /\ thrown = LastOutcome

C17_Witness ==
  /\ fpc = "thrown"
  /\ CountOf({"429"}) = 0
  /\ Len(outcomes) = MAX_RETRIES + 1
  /\ waits = <<1000, 2000, 4000>>

\* C18: an HTTP 429 does not count as a retry: retryCount is the number of
\* other failures, every 429 is followed by one wait of 60000 ms and the same
\* request again, so a call that meets 429s and at most MAX_RETRIES other
\* failures and then a success returns it; one 429 and then a success is two
\* requests, one cooldown and one returned page.
C18_RateLimitNotCounted ==
  /\ fpc = "request" =>
        /\ retryCount = CountOf(Transient)
        /\ Len(CooldownWaits) = CountOf({"429"})
  /\ fpc = "cooldown" =>
        /\ LastOutcome = "429"
        /\ retryCount = CountOf(Transient)
        /\ Len(CooldownWaits) = CountOf({"429"}) - 1
  /\ (fpc = "thrown" /\ LastOutcome # "invalid") =>
        CountOf(Transient) = MAX_RETRIES + 1
  /\ (outcomes # <<>> /\ LastOutcome = "ok") => (fpc = "returned" /\ thrown = "none")
  /\ outcomes = <<"429", "ok">> => waits = <<60000>>

C18_Witness ==
  /\ fpc = "returned"
  /\ CountOf({"429"}) = Max429
  /\ CountOf(Transient) = MAX_RETRIES
  /\ LastOutcome = "ok"

C21_LoadYieldsUsableState ==
  /\ spc \in {"loaded", "running"} =>
        /\ Has(mem, "lastSyncTime")
        /\ Has(mem, "failedAttempts")
        /\ Has(mem, "emptyDays")
  /\ spc # "raised"

IsPrefix(a, b) ==
  /\ Len(a) <= Len(b)
  /\ \A k \in 1..Len(a) : a[k] = b[k]

\* C27: failedAttempts is append-only: whenever the state file holds a
\* failedAttempts list and is written again, within a process or by a later
\* process that loaded it, the list it holds afterwards begins with the list
\* it held before.
C27_FailedAttemptsAppendOnly ==
  [][(store.kind = "json" /\ Has(store.data, "failedAttempts") /\ store' # store)
       => /\ store'.kind = "json"
          /\ Has(store'.data, "failedAttempts")
          /\ IsPrefix(store.data.failedAttempts, store'.data.failedAttempts)]_vars

\* a failure was appended to a list that a previous process had persisted
C27_Witness ==
  /\ spc = "failed"
  /\ store.kind = "json"
  /\ Has(store.data, "failedAttempts")
  /\ Len(store.data.failedAttempts) >= 2
  /\ store.data.failedAttempts[1] # store.data.failedAttempts[2]

SameProperty(a, b, k) ==
  /\ Has(a, k) <=> Has(b, k)
  /\ Has(a, k) => a[k] = b[k]

NoDuplicates(s) == \A i, j \in 1..Len(s) : s[i] = s[j] => i = j

NarrativeItem(item) ==
  LET prefix == CASE item.type = "heading1" -> <<"#", " ">>
                  [] item.type = "heading2" -> <<"##", " ">>
                  [] item.type = "heading3" -> <<"###", " ">>
                  [] item.type = "blockquote" ->
                       <<">", " ", "**">>
                         \o (IF item.speakerName = <<>> THEN <<"Unknown">>
                             ELSE item.speakerName)
                         \o <<"**", " ", "(">> \o toLocaleTimeString(item.startTime)
                         \o <<")", ":", " ">>
                  [] OTHER -> <<>>
  IN prefix \o item.content \o <<"\n">>

\* the items of a record whose rendered text is not blank, in item order
NarrativeRecord(lifelog) ==
  IF ~lifelog.isList THEN <<>>
  ELSE join(SelectSeq([k \in 1..Len(lifelog.contents) |->
                         NarrativeItem(lifelog.contents[k])], trimIsTruthy),
            <<"\n">>)

Narrative(lifelogs) ==
  join(SelectSeq([k \in 1..Len(lifelogs) |-> NarrativeRecord(lifelogs[k])], trimIsTruthy),
       <<"\n", "\n">>)

\* C29: the text written for a list of records is each record's items
\* rendered by type in item order, without the items whose rendered text is
\* empty or blank, the records joined by a blank line.
C29_NarrativeRendering ==
  rpc = "written" => mdText = Narrative(logsArg)

(***************************************************************************)
(* Claims about getLifelogs.                                               *)
(***************************************************************************)
\* C30: when a page comes without a next cursor or with fewer records than
\* batchSize, getLifelogs stops and returns the records accumulated so far;
\* what it returns holds no remote record twice.
C30_GetLifelogsStops ==
  [][/\ (pages' = pages + 1
           /\ (lastPage'.nextCursor = NULL \/ Len(lastPage'.lifelogs) < batchSize))
        => /\ gpc' = "returned"
           /\ IsPrefix(result', allLifelogs')
     /\ gpc' = "returned" => NoDuplicates(result')]_vars

(***************************************************************************)
(* Claims about the exporter that peeks the latest record.                 *)
(***************************************************************************)
LatestDate == DateOf(DescSeq(remote)[1].startTime)

\* C26: the safe sync point of a run is the date of the latest remote record
\* minus one day, and the run writes no file for a date at or after it:
\* every record it writes has a startTime date before the safe sync point.
C26_SafeSyncPoint ==
  [][/\ (safeDateStr' # safeDateStr /\ safeDateStr' # NULL) =>
          /\ remote' # {}
          /\ safeDateStr' = LatestDate' - 1
     /\ \A d \in Days :
          mdFiles'[d] # mdFiles[d] =>
            /\ d < safeDateStr
            /\ \A k \in 1..Len(mdFiles'[d].data) :
                 DateOf(mdFiles'[d].data[k].startTime) < safeDateStr]_vars

(***************************************************************************)
(* Claims about the date walk of a full sync.                              *)
(***************************************************************************)
\* C31: in a full sync, once the records fetched for a date are written,
\* every remote record of that date is in the file of the date, also when
\* the date holds more than BATCH_SIZE records and its page came with a
\* next cursor.
C31_FullSyncDateComplete ==
  (fullSync /\ pageWritten /\ pc \in {"save", "sleep"}) =>
     /\ mdFiles[currentDate].kind = "md"
     /\ \A r \in remote :
          DateOf(r.startTime) = currentDate => r \in Range(mdFiles[currentDate].data)

(***************************************************************************)
(* Claims about the request loop of the JSON exporter.                     *)
(***************************************************************************)
\* C34: every page is requested at most MAX_RETRIES times; the retry counter
\* is 0 when a new page is first requested; the cursor moves to the next
\* page only when the page it leaves has been merged to disk; and the
\* MAX_RETRIES-th failure for a page ends the run with a nonzero exit, after
\* which nothing is requested.
C34_JsonRetryLoop ==
  [][/\ \A o \in DOMAIN timesRequested : timesRequested'[o] <= MAX_RETRIES
     /\ jsonCursor' # jsonCursor =>
          /\ jsonRetries' = 0
          /\ OffsetOf(jsonCursor) \in onDisk'
     /\ jsonRetries' = MAX_RETRIES => jpc' = "done" /\ jsonExit' = "1"
     /\ jpc = "done" => timesRequested' = timesRequested]_vars

\* C33: after a page is processed the persisted lastCursor is the
\* nextCursor of that page; the first ascending request of a run uses the
\* persisted lastCursor; and no run requests a page that an earlier run has
\* merged and checkpointed, also after a run that completed on a page whose
\* nextCursor was null.
C33_CursorCheckpoint ==
  [][/\ (pc = "page" /\ mdFiles' # mdFiles) =>
          /\ stateFile'.kind = "json"
          /\ stateFile'.data.lastCursor = response.nextCursor
     /\ (pc = "idle" /\ pc' = "fetch") =>
          cursor' = PeekLoadSyncState(stateFile).lastCursor
     /\ (pc = "fetch" /\ pc' = "page") =>
          (IF cursor = NULL THEN 0 ELSE cursor) \notin peekDone]_vars

(***************************************************************************)
(* Claims about the end of a run.                                          *)
(***************************************************************************)
\* C32: over a remote of finitely many records that answers 429 finitely
\* often, a run in either mode comes to its end, complete or failed, and
\* issues no request after that.
C32_RunTerminates ==
  /\ <>(pc = "done" /\ exit \in {"complete", "failed"})
  /\ [][pc = "done" => (fpc' # "request" /\ asked' = asked)]_vars

\* a cursor walk has ended at its second request, which met a 429 and a
\* failure that was retried before the call threw
C32_Witness ==
  /\ pc = "done" /\ exit = "failed" /\ ~fullSync
  /\ Len(asked) > 1
  /\ \E k \in 1..Len(waits) : waits[k] = RateLimitCooldown
  /\ \E k \in 1..Len(waits) : waits[k] = Backoff(0)

(***************************************************************************)
(* Claims about failures of the run.                                       *)
(***************************************************************************)
\* C22: the checkpoint of a page that was fetched and merged never ends the
\* run failed: when saveSyncState fails there, the walk still goes on or
\* completes.
C22_SaveFailureDoesNotAbort ==
  [][(pc = "save" /\ pageWritten) => exit' # "failed"]_vars

\* C23: the process exits 0 only when every merge of the run was written; a
\* fatal condition, an archive file that could not be written among them,
\* gives a nonzero exit (here: the JSON exporter).
C23_ExitZeroOnlyWhenAllWritten ==
  exitCode = "0" => ~unwritten

(***************************************************************************)
(* Claims about the archive.                                               *)
(***************************************************************************)
\* the dates whose file holds the record r
FilesHolding(r) ==
  {d \in Days : \E k \in 1..Len(mdFiles[d].data) : mdFiles[d].data[k] = r}

\* C24: processLifelogs writes every record of a batch to exactly one file,
\* that of the date of its startTime; a date file holds only records of its
\* date, and there is a file only for a date for which a record was merged.
C24_DateBucketing ==
  /\ pageWritten =>
        \A k \in 1..Len(response.lifelogs) :
           FilesHolding(response.lifelogs[k]) = {DateOf(response.lifelogs[k].startTime)}
  /\ \A d \in Days :
        mdFiles[d].kind = "md" =>
          /\ \A k \in 1..Len(mdFiles[d].data) : DateOf(mdFiles[d].data[k].startTime) = d
          /\ \E r \in everWritten : DateOf(r.startTime) = d
  /\ \A d \in Days : mdFiles[d].kind \in {"md", "absent"}

C24_Witness ==
  /\ pageWritten
  /\ Cardinality(DatesOf(response.lifelogs)) = 2
  /\ \A d \in DatesOf(response.lifelogs) : mdFiles[d].kind = "md"

\* the dates of the date files of the archive
ArchivedDates == {d \in Days : mdFiles[d].kind = "md"}

====
